---- MODULE Spec2Model ----
(***************************************************************************)
(* Model of the RankOnTop analysis backend (src/backend): the /analyze/    *)
(* handler of main.py, the three signal adapters it calls and the two      *)
(* database operations that touch the account's quota counter.             *)
(*                                                                         *)
(* Numbers.  Scores are Python floats in the source.  Here every score is  *)
(* an integer number of thousandths (77.0 is 77000), ratings are tenths    *)
(* (4.3 is 43).  A weight w of the source is the factor 1000*w applied to  *)
(* an integer input, or the factor 10*w followed by \div 10 when applied   *)
(* to a score that is already in thousandths; every such division is       *)
(* exact for the values the handler produces.                              *)
(*                                                                         *)
(* Scheduling.  Each `await` of analyze_url is a point where another       *)
(* request may run.  database.py defines the awaited functions with plain  *)
(* `def`; the model takes every `await f(...)` to run f and to hand its    *)
(* result to the handler.  The blocks of the handler between two awaits    *)
(* touch only request-local data and are modelled as a sequence of steps   *)
(* in source order.                                                        *)
(***************************************************************************)
EXTENDS Integers, Sequences, FiniteSets, TLC

VARIABLES
    user_row,          \* the account's row of table users (database.py:45-52)
    analysis_history,  \* number of rows of table analysis_history (database.py:56-62)
    pc,                \* position of each request in analyze_url
    request,           \* the AnalysisRequest of each request (main.py:28-31)
    db_user,           \* the row read at main.py:81, or None
    final_response,    \* main.py:94
    locals,            \* seo_score, aieo_score, aso_score, ... (main.py:95-100)
    status,            \* HTTP status of the response, 0 while running
    spy                \* observation only: adapter calls, provider answers, db effects

vars == <<user_row, analysis_history, pc, request, db_user, final_response,
          locals, status, spy>>

(***************************************************************************)
(* Bounds of the model                                                     *)
(***************************************************************************)
\* largest analysis_count an account starts a behaviour with
MaxStart == 11
\* longest list of reviews the app-reputation provider returns
MaxReviews == 2

(***************************************************************************)
(* Python values                                                           *)
(***************************************************************************)
None == "None"

\* truth value of an Optional[str] / Optional[HttpUrl] in `if x:` / `not x`
Truthy(v) == v \notin {None, ""}

\* dict.get(k, default)
Get(d, k, default) == IF k \in DOMAIN d THEN d[k] ELSE default

\* str.strip() on the texts the model uses
Strip(s) == IF s = " " THEN "" ELSE s

\* round(x, 1) of a float whose exact value is x thousandths.  Away from a
\* tie the nearest tenth; at an exact decimal tie (x.x5) the binary double
\* lies just under or just over the tie, so either neighbour can result.
Round1(x) ==
    LET q == x \div 100
        rem == x % 100
    IN  IF rem < 50 THEN {q * 100}
        ELSE IF rem > 50 THEN {(q + 1) * 100}
        ELSE {q * 100, (q + 1) * 100}

\* round(num/den, 1) in tenths, round-half-even (no tie occurs for den <= 3)
RoundTenths(num, den) ==
    LET q == (10 * num) \div den
        rem2 == 2 * ((10 * num) % den)
    IN  IF rem2 < den THEN q
        ELSE IF rem2 > den THEN q + 1
        ELSE IF q % 2 = 0 THEN q ELSE q + 1

RECURSIVE SumSeq(_)
SumSeq(s) == IF s = <<>> THEN 0 ELSE Head(s) + SumSeq(Tail(s))

(***************************************************************************)
(* Program constants                                                       *)
(***************************************************************************)
\* main.py:86, the free tier's limit
FreeLimit == 10
\* main.py:116
estimated_ctr == 50
\* main.py:129
ai_readability == 70

(***************************************************************************)
(* analyzers/seo_analyzer.py                                               *)
(***************************************************************************)
\* Lighthouse scores s/100 for which the double (s/100)*100 lies just under
\* s, so that int() yields s - 1
TruncatedBelow == {29, 57, 58}

\* resp: [ok |-> FALSE] when requests raised a RequestException, else the
\* Lighthouse performance score in hundredths
get_pagespeed_insights(resp) ==
    IF ~resp.ok
    THEN [success |-> FALSE, error |-> "RequestException"]
    ELSE [success |-> TRUE,
          performance_score |->
              IF resp.score \in TruncatedBelow THEN resp.score - 1 ELSE resp.score]

\* the text of a tag, or None: `x.strip() if tag and x else None`
ElementText(raw) == IF Truthy(raw) THEN Strip(raw) ELSE None

\* page: [ok |-> FALSE] when requests raised a RequestException, else the
\* texts of <title>, <meta name=description> and <h1> in the fetched page
\* (None when the tag is missing)
check_on_page_seo(page) ==
    IF ~page.ok
    THEN [error |-> "RequestException"]
    ELSE [title |-> ElementText(page.title),
          meta_description |-> ElementText(page.meta_description),
          h1 |-> ElementText(page.h1)]

run_seo_analysis(resp, page) ==
    [pagespeed |-> get_pagespeed_insights(resp),
     on_page_elements |-> check_on_page_seo(page)]

(***************************************************************************)
(* analyzers/aieo_analyzer.py                                              *)
(***************************************************************************)
difficultyInclusive(competing_pages) ==
    IF competing_pages >= 100000 THEN "Very High"
    ELSE IF competing_pages >= 20000 THEN "High"
    ELSE IF competing_pages >= 5000 THEN "Medium"
    ELSE IF competing_pages >= 1000 THEN "Low"
    ELSE "Very Low"

difficulty(competing_pages) ==
    IF competing_pages > 100000 THEN "Very High"
    ELSE IF competing_pages > 20000 THEN "High"
    ELSE IF competing_pages > 5000 THEN "Medium"
    ELSE IF competing_pages > 1000 THEN "Low"
    ELSE "Very Low"

\* f"{n:,}": the decimal digits of n in groups of three, most significant
\* group first, each group given by its value
RECURSIVE FormatCommas(_)
FormatCommas(n) ==
    IF n < 1000 THEN <<n>> ELSE Append(FormatCommas(n \div 1000), n % 1000)

\* keyword.split(',')[0].strip() on the keyword strings the model uses
FirstKeyword(keyword) ==
    IF keyword = "seo tools, ranking" THEN "seo tools" ELSE keyword

\* serp.kind: "NoKey" (API_KEY unset), "Exception" (a search raised), or
\* "results": total_results of the allintitle search and whether the
\* target's domain occurs in one of the first ten organic links
get_keyword_insights(keyword, serp) ==
    IF serp.kind = "NoKey"
    THEN [success |-> FALSE, error |-> "SerpAPI key not found."]
    ELSE IF serp.kind = "Exception"
    THEN [success |-> FALSE, error |-> "Exception"]
    ELSE [success |-> TRUE,
          keyword_analyzed |-> FirstKeyword(keyword),
          competing_pages |-> FormatCommas(serp.total_results),
          estimated_difficulty |-> difficulty(serp.total_results),
          domain_in_top_10 |-> serp.domain_in_links]

(***************************************************************************)
(* analyzers/aso_analyzer.py                                               *)
(***************************************************************************)
\* ratings in tenths
known_apps ==
    [x \in {"com.instagram.android", "com.google.android.youtube",
            "com.zhiliaoapp.musically", "com.facebook.katana"} |->
        CASE x = "com.instagram.android" -> [rating |-> 43, sentiment |-> 75]
          [] x = "com.google.android.youtube" -> [rating |-> 41, sentiment |-> 72]
          [] x = "com.zhiliaoapp.musically" -> [rating |-> 44, sentiment |-> 80]
          [] x = "com.facebook.katana" -> [rating |-> 43, sentiment |-> 78]]

\* int(hex_dig[:5], 16) and int(hex_dig[5:10], 16) of the SHA-256 digest of
\* the unknown app ids the model uses
Sha256Prefix(app_id) ==
    CASE app_id = "com.example.alpha" ->
           [rating_base |-> 561179, sentiment_base |-> 364107]
      [] app_id = "com.example.beta" ->
           [rating_base |-> 447986, sentiment_base |-> 432354]
      [] app_id = "com.example.app218" ->
           [rating_base |-> 811375, sentiment_base |-> 988613]

\* the simulation: known_apps, else values derived from the digest
Fallback(app_id) ==
    IF app_id \in DOMAIN known_apps
    THEN [success |-> TRUE, app_id |-> app_id,
          user_rating |-> known_apps[app_id].rating,
          review_sentiment_score |-> known_apps[app_id].sentiment]
    ELSE LET h == Sha256Prefix(app_id)
             rating == (h.rating_base % 40) + 10
             raw == (rating * 15) \div 10 + (h.sentiment_base % 25)
         IN  [success |-> TRUE, app_id |-> app_id,
              user_rating |-> rating,
              review_sentiment_score |-> IF raw > 100 THEN 100 ELSE raw]

\* the adapter without the `if reviews:` of aso_analyzer.py:37: an empty list
\* of reviews is answered with avg_rating 0 and sentiment 0
get_app_store_insights_unguarded(app_id, provider) ==
    IF ~Truthy(app_id) THEN [success |-> FALSE, error |-> "No App ID provided."]
    ELSE IF provider.kind = "reviews"
    THEN LET reviews == provider.list
             n == Len(reviews)
             positive_count == Cardinality({i \in 1..n : reviews[i] > 3})
         IN  [success |-> TRUE, app_id |-> app_id,
              user_rating |-> IF n = 0 THEN 0 ELSE RoundTenths(SumSeq(reviews), n),
              review_sentiment_score |->
                  IF n = 0 THEN 0 ELSE (positive_count * 100) \div n]
    ELSE Fallback(app_id)

\* provider.kind: "NoSecret" (APPFOLLOW_API_SECRET unset), "Exception" (the
\* call raised), or "reviews": the star ratings of the reviews returned
get_app_store_insights(app_id, provider) ==
    IF ~Truthy(app_id) THEN [success |-> FALSE, error |-> "No App ID provided."]
    ELSE IF provider.kind = "reviews" /\ provider.list # <<>>
    THEN LET reviews == provider.list
             n == Len(reviews)
             positive_count == Cardinality({i \in 1..n : reviews[i] > 3})
         IN  [success |-> TRUE, app_id |-> app_id,
              user_rating |-> RoundTenths(SumSeq(reviews), n),
              review_sentiment_score |-> (positive_count * 100) \div n]
    ELSE Fallback(app_id)

(***************************************************************************)
(* main.py: the pure parts of analyze_url                                  *)
(***************************************************************************)
EmptyDict == [k \in {} |-> None]

\* what get_user_by_email returns for no row, or after a psycopg2.Error
NoUser == [none |-> TRUE]

\* `not db_user`
UserMissing(row) == "id" \notin DOMAIN row

\* main.py:86
QuotaExceeded(row) ==
    /\ Get(row, "subscription_tier", None) = "free"
    /\ Get(row, "analysis_count", 0) >= FreeLimit

\* main.py:90
BothGivenNever(req) == FALSE

BothGiven(req) == Truthy(req.url) /\ Truthy(req.app_id)

\* main.py:148
NeitherGiven(req) == ~Truthy(req.url) /\ ~Truthy(req.app_id)

\* main.py:82-91: the status the handler raises before any analysis, 0 if none
PrecheckValidateFirst(req, row) ==
    IF UserMissing(row) THEN 404
    ELSE IF BothGiven(req) \/ NeitherGiven(req) THEN 422
    ELSE IF QuotaExceeded(row) THEN 403
    ELSE 0

Precheck(req, row) ==
    IF UserMissing(row) THEN 404
    ELSE IF QuotaExceeded(row) THEN 403
    ELSE IF BothGiven(req) THEN 422
    ELSE 0

\* main.py:111-114, in thousandths: 33.3 is 33300
OnPageCompleteness(on_page) ==
    100000
    - (IF ~Truthy(Get(on_page, "title", None)) THEN 33300 ELSE 0)
    - (IF ~Truthy(Get(on_page, "meta_description", None)) THEN 33300 ELSE 0)
    - (IF ~Truthy(Get(on_page, "h1", None)) THEN 33300 ELSE 0)

\* main.py:109-118, in thousandths
SeoScoreUnweighted(seo_results) ==
    LET pagespeed ==
            Get(Get(seo_results, "pagespeed", EmptyDict), "performance_score", 0)
        on_page == Get(seo_results, "on_page_elements", EmptyDict)
    IN  pagespeed * 1000 + OnPageCompleteness(on_page) + estimated_ctr * 1000

SeoScore(seo_results) ==
    LET pagespeed ==
            Get(Get(seo_results, "pagespeed", EmptyDict), "performance_score", 0)
        on_page == Get(seo_results, "on_page_elements", EmptyDict)
    IN  pagespeed * 400 + (OnPageCompleteness(on_page) * 3) \div 10
        + estimated_ctr * 300

\* main.py:126
difficulty_map ==
    [b \in {"Very Low", "Low", "Medium", "High", "Very High"} |->
        CASE b = "Very Low" -> 100
          [] b = "Low" -> 75
          [] b = "Medium" -> 50
          [] b = "High" -> 25
          [] b = "Very High" -> 0]

\* main.py:126-131, in thousandths
AieoScore(aieo_results) ==
    LET difficulty_inverse ==
            Get(difficulty_map, Get(aieo_results, "estimated_difficulty", "Medium"), 50)
        top10_presence ==
            IF Get(aieo_results, "domain_in_top_10", FALSE) THEN 100 ELSE 0
    IN  difficulty_inverse * 400 + top10_presence * 300 + ai_readability * 300

\* main.py:141-144, in thousandths; user_rating is in tenths, so
\* (user_rating / 5) * 100 is 2000 thousandths per tenth
AsoScore(aso_results) ==
    LET user_rating_norm == Get(aso_results, "user_rating", 0) * 2000
        sentiment_score == Get(aso_results, "review_sentiment_score", 0) * 1000
    IN  (user_rating_norm * 5) \div 10 + (sentiment_score * 5) \div 10

\* main.py:152 before round(): the weighted sum, in thousandths
OverallRenormalized(seo_score, aieo_score, aso_score) ==
    LET w == (IF seo_score > 0 THEN 4 ELSE 0) + (IF aieo_score > 0 THEN 3 ELSE 0)
             + (IF aso_score > 0 THEN 3 ELSE 0)
    IN  IF w = 0 THEN 0
        ELSE (seo_score * 4 + aieo_score * 3 + aso_score * 3) \div w

OverallRaw(seo_score, aieo_score, aso_score) ==
    (seo_score * 4) \div 10 + (aieo_score * 3) \div 10 + (aso_score * 3) \div 10

(***************************************************************************)
(* What the environment can send and answer                                *)
(***************************************************************************)
Reqs == {"r1", "r2"}

TheUrl == "https://www.example.com/"
TheKeyword == "seo tools, ranking"

Tiers == {"free", "pro"}

PageTexts == {None, " ", "text"}

\* competing-page counts around every threshold of aieo_analyzer.py:37-46
PageCounts == {0, 1000, 1001, 5000, 5001, 20000, 20001, 100000, 100001, 2500000}

ReviewLists == UNION {[1..n -> 1..5] : n \in 0..MaxReviews}

\* every answer of every provider: used where one request is analysed
Wide ==
    [requests |-> [url : {None, TheUrl}, keyword : {None, "", TheKeyword},
                   app_id : {None, "com.instagram.android", "com.example.alpha",
                             "com.example.beta"}],
     resp |-> {[ok |-> FALSE]} \cup {[ok |-> TRUE, score |-> s] : s \in 0..100},
     page |-> {[ok |-> FALSE]}
              \cup {[ok |-> TRUE, title |-> t, meta_description |-> m, h1 |-> h] :
                       t \in {None, "text"}, m \in {None, "text"}, h \in PageTexts},
     serp |-> {[kind |-> "NoKey"], [kind |-> "Exception"]}
              \cup {[kind |-> "results", total_results |-> n, domain_in_links |-> b] :
                       n \in PageCounts, b \in BOOLEAN},
     provider |-> {[kind |-> "NoSecret"], [kind |-> "Exception"]}
                  \cup {[kind |-> "reviews", list |-> l] : l \in ReviewLists}]

\* a few answers of each kind: used where two requests run concurrently
Narrow ==
    [requests |-> [url : {None, TheUrl}, keyword : {None, TheKeyword},
                   app_id : {None, "com.example.alpha"}],
     resp |-> {[ok |-> FALSE], [ok |-> TRUE, score |-> 80]},
     page |-> {[ok |-> FALSE],
               [ok |-> TRUE, title |-> "text", meta_description |-> "text",
                h1 |-> "text"]},
     serp |-> {[kind |-> "NoKey"],
               [kind |-> "results", total_results |-> 1001, domain_in_links |-> TRUE]},
     provider |-> {[kind |-> "NoSecret"], [kind |-> "reviews", list |-> <<5>>]}]

\* the answers of the review provider for a few app ids, one of them known
\* to the simulation: used where two requests analyse apps concurrently
Apps ==
    [Narrow EXCEPT
        !.requests = [url : {None, TheUrl}, keyword : {None, TheKeyword},
                      app_id : {None, "com.instagram.android", "com.example.alpha",
                                "com.example.app218"}],
        !.resp = {[ok |-> TRUE, score |-> 80]},
        !.page = {[ok |-> FALSE]},
        !.provider = {[kind |-> "NoSecret"], [kind |-> "Exception"],
                      [kind |-> "reviews", list |-> <<>>],
                      [kind |-> "reviews", list |-> <<4, 1>>]}]

(***************************************************************************)
(* State                                                                   *)
(***************************************************************************)
NoSpy ==
    [adapter_calls |-> 0,        \* adapters invoked by the request
     serp |-> [kind |-> "NotCalled"],  \* what the search provider answered
     provider |-> [kind |-> "NotCalled"],  \* what the review provider answered
     increments |-> 0,           \* committed UPDATEs of analysis_count
     saves |-> 0,                \* committed INSERTs into analysis_history
     save_failed |-> FALSE]      \* save_analysis_result caught a psycopg2.Error

InitWith(tiers, counts, reqs) ==
    /\ user_row \in [id : {1}, subscription_tier : tiers, analysis_count : counts]
    /\ analysis_history = 0
    /\ pc = [r \in Reqs |-> IF r \in reqs THEN "idle" ELSE "off"]
    /\ request = [r \in Reqs |-> [url |-> None, keyword |-> None, app_id |-> None]]
    /\ db_user = [r \in Reqs |-> NoUser]
    /\ final_response = [r \in Reqs |-> EmptyDict]
    /\ locals = [r \in Reqs |-> EmptyDict]
    /\ status = [r \in Reqs |-> 0]
    /\ spy = [r \in Reqs |-> NoSpy]

\* a new account, and accounts around the free tier's limit
StartCounts == {0} \cup ((FreeLimit - 2)..MaxStart)

Init == InitWith(Tiers, StartCounts, Reqs)

(***************************************************************************)
(* analyze_url, one action per block of the handler                        *)
(***************************************************************************)
\* POST /analyze/ arrives (main.py:79-80)
Receive(r, D) ==
    /\ pc[r] = "idle"
    /\ \E req \in D.requests : request' = [request EXCEPT ![r] = req]
    /\ pc' = [pc EXCEPT ![r] = "lookup"]
    /\ UNCHANGED <<user_row, analysis_history, db_user, final_response, locals,
                   status, spy>>

\* main.py:81, database.py:90-106: the row, or None after a psycopg2.Error
Lookup(r) ==
    /\ pc[r] = "lookup"
    /\ \/ db_user' = [db_user EXCEPT ![r] = user_row]
       \/ db_user' = [db_user EXCEPT ![r] = NoUser]
    /\ pc' = [pc EXCEPT ![r] = "check"]
    /\ UNCHANGED <<user_row, analysis_history, request, final_response, locals,
                   status, spy>>

\* main.py:82-100
Check(r) ==
    /\ pc[r] = "check"
    /\ LET s == Precheck(request[r], db_user[r])
       IN  IF s # 0
           THEN /\ status' = [status EXCEPT ![r] = s]
                /\ pc' = [pc EXCEPT ![r] = "done"]
                /\ UNCHANGED locals
           ELSE /\ locals' = [locals EXCEPT ![r] =
                        [target |-> None, analysis_performed |-> FALSE,
                         seo_score |-> 0, aieo_score |-> 0, aso_score |-> 0]]
                /\ pc' = [pc EXCEPT ![r] = "url"]
                /\ UNCHANGED status
    /\ UNCHANGED <<user_row, analysis_history, request, db_user, final_response, spy>>

\* main.py:102-118
UrlAnalysis(r, D) ==
    /\ pc[r] = "url"
    /\ \/ /\ Truthy(request[r].url)
          /\ \E resp \in D.resp, page \in D.page :
                LET seo_results == run_seo_analysis(resp, page)
                IN  /\ final_response' = [final_response EXCEPT ![r] =
                            ("seo_analysis" :> seo_results) @@ @]
                    /\ locals' = [locals EXCEPT ![r] =
                            ("on_page_completeness" :>
                                 OnPageCompleteness(seo_results.on_page_elements))
                            @@ [@ EXCEPT !.target = request[r].url,
                                         !.seo_score = SeoScore(seo_results)]]
          /\ spy' = [spy EXCEPT ![r].adapter_calls = @ + 2]
          /\ pc' = [pc EXCEPT ![r] = "keyword"]
       \/ /\ ~Truthy(request[r].url)
          /\ pc' = [pc EXCEPT ![r] = "app"]
          /\ UNCHANGED <<final_response, locals, spy>>
    /\ UNCHANGED <<user_row, analysis_history, request, db_user, status>>

\* main.py:120-133
KeywordAnalysis(r, D) ==
    /\ pc[r] = "keyword"
    /\ \/ /\ Truthy(request[r].keyword)
          /\ \E serp \in D.serp :
                LET aieo_results == get_keyword_insights(request[r].keyword, serp)
                IN  /\ final_response' = [final_response EXCEPT ![r] =
                            ("aieo_analysis" :> aieo_results) @@ @]
                    /\ locals' = [locals EXCEPT ![r].aieo_score = AieoScore(aieo_results),
                                                ![r].analysis_performed = TRUE]
                    /\ spy' = [spy EXCEPT ![r].adapter_calls = @ + 1,
                                          ![r].serp = serp]
       \/ /\ ~Truthy(request[r].keyword)
          /\ locals' = [locals EXCEPT ![r].analysis_performed = TRUE]
          /\ UNCHANGED <<final_response, spy>>
    /\ pc' = [pc EXCEPT ![r] = "app"]
    /\ UNCHANGED <<user_row, analysis_history, request, db_user, status>>

\* main.py:135-146
AppAnalysis(r, D) ==
    /\ pc[r] = "app"
    /\ \/ /\ Truthy(request[r].app_id)
          /\ \E provider \in D.provider :
                LET aso_results == get_app_store_insights(request[r].app_id, provider)
                IN  /\ final_response' = [final_response EXCEPT ![r] =
                            ("aso_analysis" :> aso_results) @@ @]
                    /\ locals' = [locals EXCEPT ![r].target = request[r].app_id,
                                                ![r].aso_score = AsoScore(aso_results),
                                                ![r].analysis_performed = TRUE]
                    /\ spy' = [spy EXCEPT ![r].adapter_calls = @ + 1,
                                          ![r].provider = provider]
       \/ /\ ~Truthy(request[r].app_id)
          /\ UNCHANGED <<final_response, locals, spy>>
    /\ pc' = [pc EXCEPT ![r] = "finish"]
    /\ UNCHANGED <<user_row, analysis_history, request, db_user, status>>

\* main.py:148-156 (and the return of line 160 when nothing was analysed)
Finish(r) ==
    /\ pc[r] = "finish"
    /\ IF NeitherGiven(request[r])
       THEN /\ status' = [status EXCEPT ![r] = 422]
            /\ pc' = [pc EXCEPT ![r] = "done"]
            /\ UNCHANGED final_response
       ELSE /\ \E overall_score \in Round1(OverallRaw(locals[r].seo_score,
                                                      locals[r].aieo_score,
                                                      locals[r].aso_score)) :
                  final_response' = [final_response EXCEPT ![r] =
                      ("overall_score" :> overall_score) @@ @]
            /\ IF locals[r].analysis_performed
               THEN pc' = [pc EXCEPT ![r] = "increment"] /\ UNCHANGED status
               ELSE /\ pc' = [pc EXCEPT ![r] = "done"]
                    /\ status' = [status EXCEPT ![r] = 200]
    /\ UNCHANGED <<user_row, analysis_history, request, db_user, locals, spy>>

\* database.py:113-114: the UPDATE and its commit
IncrementSaturating(row) ==
    [row EXCEPT !.analysis_count = IF @ < FreeLimit THEN @ + 1 ELSE @]

IncrementCommitted(row) == [row EXCEPT !.analysis_count = @ + 1]

\* main.py:157, database.py:108-119: committed, or a psycopg2.Error that is
\* printed and rolled back
Increment(r) ==
    /\ pc[r] = "increment"
    /\ \/ /\ user_row' = IncrementCommitted(user_row)
          /\ spy' = [spy EXCEPT ![r].increments = @ + 1]
       \/ UNCHANGED <<user_row, spy>>
    /\ pc' = [pc EXCEPT ![r] = "save"]
    /\ UNCHANGED <<analysis_history, request, db_user, final_response, locals, status>>

\* main.py:158-160, database.py:121-137: committed, or a psycopg2.Error that
\* is printed and rolled back; the handler returns final_response either way
Save(r) ==
    /\ pc[r] = "save"
    /\ \/ /\ analysis_history' = analysis_history + 1
          /\ spy' = [spy EXCEPT ![r].saves = @ + 1]
       \/ /\ spy' = [spy EXCEPT ![r].save_failed = TRUE]
          /\ UNCHANGED analysis_history
    /\ status' = [status EXCEPT ![r] = 200]
    /\ pc' = [pc EXCEPT ![r] = "done"]
    /\ UNCHANGED <<user_row, request, db_user, final_response, locals>>

Handle(r, D) ==
    \/ Receive(r, D)
    \/ Lookup(r)
    \/ Check(r)
    \/ UrlAnalysis(r, D)
    \/ KeywordAnalysis(r, D)
    \/ AppAnalysis(r, D)
    \/ Finish(r)
    \/ Increment(r)
    \/ Save(r)

\* two requests of one account, running concurrently
Next == \E r \in Reqs : Handle(r, Narrow)

Spec == Init /\ [][Next]_vars

\* one request, every provider answer
ScoreInit == InitWith({"free"}, {0}, {"r1"})

ScoreNext == Handle("r1", Wide)

ScoreSpec == ScoreInit /\ [][ScoreNext]_vars

\* two requests of one account, analysing apps
AppInit == InitWith({"pro"}, {0}, Reqs)

AppNext == \E r \in Reqs : Handle(r, Apps)

AppSpec == AppInit /\ [][AppNext]_vars

(***************************************************************************)
(* Properties                                                              *)
(***************************************************************************)
HasUrl(r) == request[r].url \notin {None, ""}
HasKeyword(r) == request[r].keyword \notin {None, ""}
HasAppId(r) == request[r].app_id \notin {None, ""}
InvalidTarget(r) == (HasUrl(r) /\ HasAppId(r)) \/ (~HasUrl(r) /\ ~HasAppId(r))
Done(r) == pc[r] = "done"
Found(r) == "id" \in DOMAIN db_user[r]
\* the row read at the gate is a free-tier row with the limit used up
AtLimit(r) ==
    /\ Found(r)
    /\ db_user[r].subscription_tier = "free"
    /\ db_user[r].analysis_count >= 10
Scored(r) == "seo_score" \in DOMAIN locals[r]
HasOverall(r) == "overall_score" \in DOMAIN final_response[r]

\* C1: a free-tier request is rejected with 403 exactly when the count read
\* at the gate is >= 10, and then no adapter was invoked; a non-free request
\* is never rejected with 403; every request that completes (200) has raised
\* the account's count by exactly 1.
C1_QuotaGate ==
    \A r \in Reqs :
        /\ (Done(r) /\ Found(r) /\ db_user[r].subscription_tier = "free") =>
               ((status[r] = 403) <=> (db_user[r].analysis_count >= 10))
        /\ status[r] = 403 => spy[r].adapter_calls = 0
        /\ (Found(r) /\ db_user[r].subscription_tier # "free") => status[r] # 403
        /\ status[r] = 200 => spy[r].increments = 1

\* the part of C1 that is about the gate alone
C1_GateOnly ==
    \A r \in Reqs :
        /\ (Done(r) /\ Found(r) /\ db_user[r].subscription_tier = "free") =>
               ((status[r] = 403) <=> (db_user[r].analysis_count >= 10))
        /\ status[r] = 403 => spy[r].adapter_calls = 0
        /\ (Found(r) /\ db_user[r].subscription_tier # "free") => status[r] # 403
        /\ spy[r].increments <= 1
        /\ spy[r].increments = 1 => pc[r] \in {"save", "done"}

C3_IncrementAfterPersist ==
    \A r \in Reqs :
        /\ spy[r].increments > 0 => spy[r].saves > 0
        /\ spy[r].save_failed => spy[r].increments = 0

\* C4: when a keyword is supplied with a URL and the keyword adapter returns
\* success=False, the AIEO dimension adds nothing: the overall score is the one
\* the request gets without a keyword, round(seo_score*0.4, 1).
C4_FailedAieoOmitted ==
    \A r \in Reqs :
        (HasOverall(r) /\ HasUrl(r) /\ HasKeyword(r)
         /\ ~final_response[r]["aieo_analysis"].success) =>
            /\ locals[r].aieo_score = 0
            /\ final_response[r]["overall_score"]
                   \in Round1((locals[r].seo_score * 4) \div 10)

\* C5: the gate decides on the count read at the lookup and the increment
\* is a separate, unconditional step: every request of a free account that
\* got past the gate read a count below 10, and every committed increment
\* raises the account's count by exactly 1 whatever the count is by then.
C5_GateNotAtomic ==
    /\ [](\A r \in Reqs :
            (Found(r) /\ db_user[r].subscription_tier = "free"
             /\ pc[r] \in {"url", "keyword", "app", "finish", "increment", "save"})
                => db_user[r].analysis_count < 10)
    /\ [][\A r \in Reqs :
            spy'[r].increments # spy[r].increments =>
                user_row'.analysis_count = user_row.analysis_count + 1]_vars

\* two requests of a free account both read 9, both completed, and the
\* count is 11
C5_Witness ==
    /\ user_row.subscription_tier = "free"
    /\ \A r \in Reqs :
          /\ status[r] = 200
          /\ Found(r) /\ db_user[r].analysis_count = 9
          /\ spy[r].increments = 1
    /\ user_row.analysis_count = 11

Pagespeed(r) == final_response[r]["seo_analysis"].pagespeed
OnPage(r) == final_response[r]["seo_analysis"].on_page_elements
Present(on_page, k) == k \in DOMAIN on_page /\ on_page[k] \notin {None, ""}
PresentCount(on_page) ==
    Cardinality({k \in {"title", "meta_description", "h1"} : Present(on_page, k)})

\* C7: overall = round(seo_score*0.4 + aieo_score*0.3 + aso_score*0.3, 1)
\* with fixed weights; a dimension that was not requested (no keyword, no app
\* id, no URL) contributes 0; a URL-only request with performance 80, all
\* three on-page elements and no keyword has seo_score 77 and overall 30.8.
C7_Composite ==
    \A r \in Reqs :
        HasOverall(r) =>
            /\ final_response[r]["overall_score"] \in
                   Round1((locals[r].seo_score * 4 + locals[r].aieo_score * 3
                           + locals[r].aso_score * 3) \div 10)
            /\ ~HasUrl(r) => (locals[r].seo_score = 0 /\ locals[r].aieo_score = 0)
            /\ ~HasKeyword(r) => locals[r].aieo_score = 0
            /\ ~HasAppId(r) => locals[r].aso_score = 0
            /\ (HasUrl(r) /\ ~HasKeyword(r) /\ Pagespeed(r).success
                /\ Pagespeed(r).performance_score = 80
                /\ PresentCount(OnPage(r)) = 3) =>
                   /\ locals[r].seo_score = 77000
                   /\ final_response[r]["overall_score"] = 30800

\* the scenario of C7 has been analysed and answered
C7_Witness ==
    \E r \in Reqs :
        /\ status[r] = 200 /\ HasUrl(r) /\ ~HasKeyword(r)
        /\ Pagespeed(r).success /\ Pagespeed(r).performance_score = 80
        /\ PresentCount(OnPage(r)) = 3
        /\ final_response[r]["overall_score"] = 30800

\* C8: for every valid request and every adapter outcome, seo_score,
\* aieo_score, aso_score and the overall score lie in [0,100], and the
\* overall score of a URL-only request without a keyword is at most 40.
C8_Range ==
    \A r \in Reqs :
        /\ Scored(r) =>
               /\ locals[r].seo_score \in 0..100000
               /\ locals[r].aieo_score \in 0..100000
               /\ locals[r].aso_score \in 0..100000
        /\ HasOverall(r) =>
               /\ final_response[r]["overall_score"] \in 0..100000
               /\ (HasUrl(r) /\ ~HasKeyword(r)) =>
                      final_response[r]["overall_score"] <= 40000

\* a URL-only request without a keyword got the best answers of both SEO
\* adapters: seo_score 85, overall 34
C8_Witness ==
    \E r \in Reqs :
        /\ status[r] = 200
        /\ HasUrl(r) /\ ~HasKeyword(r)
        /\ Pagespeed(r).success /\ Pagespeed(r).performance_score = 100
        /\ PresentCount(OnPage(r)) = 3
        /\ locals[r].seo_score = 85000
        /\ final_response[r]["overall_score"] = 34000

\* an app request whose reviews all give five stars: aso_score 100, overall 30
C8_AppCeiling ==
    \E r \in Reqs :
        /\ status[r] = 200 /\ HasAppId(r)
        /\ locals[r].aso_score = 100000
        /\ final_response[r]["overall_score"] = 30000

\* C9: a failed page-performance adapter contributes 0 to seo_score; a failed
\* content adapter gives on-page completeness exactly 0; otherwise each
\* present element contributes 100/3 and a missing one 0; so when both
\* adapters fail seo_score = 50*0.3 = 15.
C9_FailClosedSeo ==
    \A r \in Reqs :
        "seo_analysis" \in DOMAIN final_response[r] =>
            LET perf == IF Pagespeed(r).success
                        THEN Pagespeed(r).performance_score ELSE 0
                failed == "error" \in DOMAIN OnPage(r)
                completeness == locals[r].on_page_completeness
            IN  /\ failed => completeness = 0
                /\ ~failed => 3 * completeness = 100000 * PresentCount(OnPage(r))
                /\ 10 * locals[r].seo_score = 4000 * perf + 3 * completeness + 150000
                /\ (failed /\ ~Pagespeed(r).success) => locals[r].seo_score = 15000

\* what the code does in the cases of C9: completeness is 100 - 33.3 per
\* missing element, 0.1 when the content adapter failed
C9_AsCoded ==
    \A r \in Reqs :
        "seo_analysis" \in DOMAIN final_response[r] =>
            /\ locals[r].on_page_completeness =
                   100000 - 33300 * (3 - PresentCount(OnPage(r)))
            /\ ("error" \in DOMAIN OnPage(r) /\ ~Pagespeed(r).success) =>
                   locals[r].seo_score = 15030

\* C10: the band of a competing-page count n is Very High if n > 100000,
\* else High if n > 20000, else Medium if n > 5000, else Low if n > 1000,
\* else Very Low; and for a successful adapter result
\* aieo_score = inverse(band)*0.4 + (100 if in top 10 else 0)*0.3 + 70*0.3
\* with inverse Very Low=100, Low=75, Medium=50, High=25, Very High=0.
C10_DifficultyBands ==
    \A r \in Reqs :
        spy[r].serp.kind = "results" =>
            LET n == spy[r].serp.total_results
                res == final_response[r]["aieo_analysis"]
                band == res.estimated_difficulty
                inverse == CASE band = "Very Low" -> 100
                             [] band = "Low" -> 75
                             [] band = "Medium" -> 50
                             [] band = "High" -> 25
                             [] band = "Very High" -> 0
            IN  /\ res.success
                /\ band = (IF n > 100000 THEN "Very High"
                           ELSE IF n > 20000 THEN "High"
                           ELSE IF n > 5000 THEN "Medium"
                           ELSE IF n > 1000 THEN "Low" ELSE "Very Low")
                /\ n \in {1000, 5000, 20000, 100000} =>
                       band = (CASE n = 1000 -> "Very Low" [] n = 5000 -> "Low"
                                 [] n = 20000 -> "Medium" [] n = 100000 -> "High")
                /\ n \in {1001, 5001, 20001, 100001} =>
                       band = (CASE n = 1001 -> "Low" [] n = 5001 -> "Medium"
                                 [] n = 20001 -> "High" [] n = 100001 -> "Very High")
                /\ locals[r].aieo_score =
                       inverse * 400
                       + (IF res.domain_in_top_10 THEN 100 ELSE 0) * 300
                       + 70 * 300

\* a keyword with exactly 1000 competing pages, found in the top 10, scored
\* 100*0.4 + 100*0.3 + 21 = 91
C10_Witness ==
    \E r \in Reqs :
        /\ spy[r].serp.kind = "results"
        /\ spy[r].serp.total_results = 1000
        /\ spy[r].serp.domain_in_links
        /\ final_response[r]["aieo_analysis"].estimated_difficulty = "Very Low"
        /\ locals[r].aieo_score = 91000
        /\ status[r] = 200

\* the app-reputation adapter has answered request r
AsoDone(r) == "aso_analysis" \in DOMAIN final_response[r]
Aso(r) == final_response[r]["aso_analysis"]
\* the real provider gave the numbers: it returned at least one review
RealPath(r) == spy[r].provider.kind = "reviews" /\ spy[r].provider.list # <<>>
\* the provider was absent, failed, or returned no reviews
NoProviderData(r) ==
    \/ spy[r].provider.kind \in {"NoSecret", "Exception"}
    \/ spy[r].provider.kind = "reviews" /\ spy[r].provider.list = <<>>

\* C11: for the same app id, the record returned by the fallback path is
\* distinguishable from the record returned by the real-provider path, even
\* when rating and sentiment are equal.
C11_PathTagged ==
    \A r1 \in Reqs, r2 \in Reqs :
        (AsoDone(r1) /\ AsoDone(r2) /\ request[r1].app_id = request[r2].app_id
         /\ RealPath(r1) /\ NoProviderData(r2)) =>
            Aso(r1) # Aso(r2)

\* what the code returns on both paths: the same four keys, none naming the path
C11_AsCoded ==
    \A r \in Reqs :
        AsoDone(r) =>
            DOMAIN Aso(r) = {"success", "app_id", "user_rating", "review_sentiment_score"}

====
